---- MODULE Spec2Model ----
(***************************************************************************)
(* A model of ebrd_scraper.py: one run of main(), which calls              *)
(* fetch_jobs_with_selenium(), removes duplicate links, builds the RSS     *)
(* element tree with create_rss_feed() and saves it to ebrd_jobs.xml.      *)
(*                                                                         *)
(* Text is a sequence of one-character strings, so that startswith, strip  *)
(* and concatenation are computed rather than assumed.                     *)
(***************************************************************************)
EXTENDS Integers, Sequences, FiniteSets, TLC

VARIABLES pc, session, quitCalls, timedOut, markup, dumpFile, rows, i,
          all_jobs, origin, skipped, pending, raised, jobs, unique_jobs,
          rss_feed, feedFile, href, job_url

vars == <<pc, session, quitCalls, timedOut, markup, dumpFile, rows, i,
          all_jobs, origin, skipped, pending, raised, jobs, unique_jobs,
          rss_feed, feedFile, href, job_url>>

(* ------------------------------ bounds --------------------------------- *)

\* Most table rows in a rendered page.
MaxRows == 3
\* Longest job list handed to the duplicate filter / feed builder on their own.
MaxJobs == 3
\* Longest href handed to the canonicalization rule on its own.
MaxHrefLen == 4

(* ------------------------------- text ---------------------------------- *)

BASE_URL ==
    <<"h","t","t","p","s",":","/","/","j","o","b","s",".","e","b","r","d",".","c","o","m">>

HTTP == <<"h","t","t","p">>

SLASH == <<"/">>

NOT_SPECIFIED == <<"N","o","t"," ","s","p","e","c","i","f","i","e","d">>

LOCATION_PREFIX == <<"L","o","c","a","t","i","o","n",":"," ">>

POSTING_DATE_PREFIX == <<"\n","P","o","s","t","i","n","g"," ","D","a","t","e",":"," ">>

\* str.startswith
StartsWith(s, p) == Len(s) >= Len(p) /\ SubSeq(s, 1, Len(p)) = p

Whitespace == {" ", "\n", "\t"}

RECURSIVE LStrip(_)
LStrip(s) == IF s # <<>> /\ Head(s) \in Whitespace THEN LStrip(Tail(s)) ELSE s

RECURSIVE RStrip(_)
RStrip(s) ==
    IF s # <<>> /\ s[Len(s)] \in Whitespace THEN RStrip(SubSeq(s, 1, Len(s) - 1)) ELSE s

\* str.strip
Strip(s) == RStrip(LStrip(s))

\* Tag.get_text(strip=True): every string of the tag stripped, the empty ones
\* dropped, the rest joined without a separator.
RECURSIVE get_text_strip(_)
get_text_strip(strings) ==
    IF strings = <<>> THEN <<>>
    ELSE Strip(Head(strings)) \o get_text_strip(Tail(strings))

(* -------------------------- link canonicalization ---------------------- *)

MakeAbsoluteNoSchemeTest(url) ==
    IF StartsWith(url, SLASH) THEN BASE_URL \o url ELSE BASE_URL \o SLASH \o url

\* "Make URL absolute"
MakeAbsolute(url) ==
    IF StartsWith(url, SLASH) THEN BASE_URL \o url
    ELSE IF ~StartsWith(url, HTTP) THEN BASE_URL \o SLASH \o url
    ELSE url

(* ------------------------------ the page ------------------------------- *)

\* An optional value is a sequence of length 0 (None) or 1.
None == <<>>

Some(x) == <<x>>

\* link.get('href', ''): the attribute, or '' when the tag has none.
GetHref(a) == IF a.href = None THEN <<>> ELSE a.href[1]

\* row.find('a'): the first hyperlink of the row, or None.
FindA(row) == IF row.anchors = <<>> THEN None ELSE Some(row.anchors[1])

\* The content of a <tr>: its hyperlinks in document order (each with its
\* strings and its href attribute, if any) and the strings of its <td> cells.
RowBodies ==
    { [anchors |-> <<>>,
       cells   |-> << <<"t">>, <<"L">> >>],
      [anchors |-> << [strings |-> << <<" ","A"," ">> >>, href |-> Some(<<"/","a">>)] >>,
       cells   |-> << <<"t">>, <<" ","L"," ">>, <<"D">> >>],
      [anchors |-> << [strings |-> << <<" ">>, <<"\n">> >>, href |-> Some(<<"/","b">>)] >>,
       cells   |-> << <<"t">> >>],
      [anchors |-> << [strings |-> << <<"B">> >>, href |-> None] >>,
       cells   |-> << <<"t">>, <<"L">> >>],
      [anchors |-> << [strings |-> << <<"C">> >>, href |-> Some(<<"a">>)],
                      [strings |-> << <<"D">> >>, href |-> Some(<<"/","d">>)] >>,
       cells   |-> << <<"t">> >>],
      [anchors |-> << [strings |-> << <<"E">>, <<" ","F">> >>,
                       href    |-> Some(<<"h","t","t","p",":","/","/","x">>)] >>,
       cells   |-> << <<"t">>, <<>>, <<"D">> >>] }

\* A <tr>: whether its class list has data-row, and its content.
RowChoices ==
    { [marker |-> m, anchors |-> b.anchors, cells |-> b.cells] :
        m \in BOOLEAN, b \in RowBodies }

RECURSIVE SeqsUpTo(_, _)
SeqsUpTo(S, n) ==
    IF n = 0 THEN { <<>> }
    ELSE LET shorter == SeqsUpTo(S, n - 1)
         IN  shorter \cup { Append(s, x) : s \in { t \in shorter : Len(t) = n - 1 }, x \in S }

\* driver.page_source: a page without a searchResults table (table = None), or
\* with one, given by its <tr> descendants in document order.
Markups ==
    { [table |-> None] } \cup { [table |-> Some(t)] : t \in SeqsUpTo(RowChoices, MaxRows) }

(* ------------------------- fetch_jobs_with_selenium -------------------- *)

\* table.find_all('tr', {'class': 'data-row'})
DataRows(trs) == SelectSeq(trs, LAMBDA r : r.marker)

\* [r for r in rows if r.find('a')]
RowsWithLinks(trs) == SelectSeq(trs, LAMBDA r : FindA(r) # None)

\* The candidate rows: the data-row rows, or, when there are none, the rows
\* of the table that contain a hyperlink.
SelectRows(trs) == IF DataRows(trs) # <<>> THEN DataRows(trs) ELSE RowsWithLinks(trs)

\* cells[n].get_text(strip=True) when the row has n+1 cells, else the sentinel
\* (n counted from 0 as in the source).
CellText(row, n) ==
    IF Len(row.cells) >= n + 1 THEN Strip(row.cells[n + 1]) ELSE NOT_SPECIFIED

JobOf(row, a) ==
    [title        |-> get_text_strip(a.strings),
     link         |-> MakeAbsolute(GetHref(a)),
     location     |-> CellText(row, 1),
     posting_date |-> CellText(row, 2)]

ParseRowFirstCellTitle(row) ==
    IF FindA(row) = None
    THEN Some([title        |-> Strip(row.cells[1]),
               link         |-> MakeAbsolute(<<>>),
               location     |-> CellText(row, 1),
               posting_date |-> CellText(row, 2)])
    ELSE LET job == JobOf(row, FindA(row)[1])
         IN  IF job.title = <<>> \/ job.link = <<>> THEN None ELSE Some(job)

ParseRowKeepsUntitled(row) ==
    IF FindA(row) = None THEN None ELSE Some(JobOf(row, FindA(row)[1]))

\* The body of the row loop when nothing raises: the record the row
\* contributes, or None when the loop continues without appending.
ParseRow(row) ==
    IF FindA(row) = None THEN None
    ELSE LET job == JobOf(row, FindA(row)[1])
         IN  IF job.title = <<>> \/ job.link = <<>> THEN None ELSE Some(job)

OldDump == [kind |-> "old", content |-> None]

OldFeed == [kind |-> "old", content |-> None]

\* The positions inside the try block of fetch_jobs_with_selenium.
TryBody == {"get", "wait", "page_source", "dump", "parse", "rows"}

\* An exception leaves the try block: the finally clause runs next.
Raise(what) ==
    /\ pc' = "finally"
    /\ pending' = "raise"
    /\ raised' = what

StartMain ==
    /\ pc = "main"
    /\ pc' = "setup_driver"
    /\ UNCHANGED <<session, quitCalls, timedOut, markup, dumpFile, rows, i, all_jobs,
                   origin, skipped, pending, raised, jobs, unique_jobs, rss_feed,
                   feedFile, href, job_url>>

\* driver = setup_driver(); all_jobs = []   (before the try block)
SetupDriver ==
    /\ pc = "setup_driver"
    /\ \/ /\ session' = "open"
          /\ all_jobs' = <<>>
          /\ pc' = "get"
          /\ UNCHANGED raised
       \/ /\ pc' = "raised"
          /\ raised' = "setup_driver"
          /\ UNCHANGED <<session, all_jobs>>
    /\ UNCHANGED <<quitCalls, timedOut, markup, dumpFile, rows, i, origin, skipped,
                   pending, jobs, unique_jobs, rss_feed, feedFile, href, job_url>>

\* driver.get(SEARCH_URL); time.sleep(5)
DriverGet ==
    /\ pc = "get"
    /\ \/ /\ pc' = "wait"
          /\ UNCHANGED <<pending, raised>>
       \/ Raise("get")
    /\ UNCHANGED <<session, quitCalls, timedOut, markup, dumpFile, rows, i, all_jobs,
                   origin, skipped, jobs, unique_jobs, rss_feed, feedFile, href, job_url>>

\* WebDriverWait(driver, 15).until(...) inside its own try/except Exception
WaitForResults ==
    /\ pc = "wait"
    /\ \E timeout \in BOOLEAN : timedOut' = timeout
    /\ pc' = "page_source"
    /\ UNCHANGED <<session, quitCalls, markup, dumpFile, rows, i, all_jobs, origin,
                   skipped, pending, raised, jobs, unique_jobs, rss_feed, feedFile,
                   href, job_url>>

\* html_content = driver.page_source
PageSource ==
    /\ pc = "page_source"
    /\ \/ /\ \E m \in Markups : markup' = Some(m)
          /\ pc' = "dump"
          /\ UNCHANGED <<pending, raised>>
       \/ /\ Raise("page_source")
          /\ UNCHANGED markup
    /\ UNCHANGED <<session, quitCalls, timedOut, dumpFile, rows, i, all_jobs, origin,
                   skipped, jobs, unique_jobs, rss_feed, feedFile, href, job_url>>

SaveDebugHtmlOnlyWithTable ==
    /\ pc = "dump"
    /\ \/ /\ dumpFile' = IF markup[1].table = None THEN dumpFile
                         ELSE [kind |-> "written", content |-> markup]
          /\ pc' = "parse"
          /\ UNCHANGED <<pending, raised>>
       \/ /\ Raise("dump")
          /\ \/ UNCHANGED dumpFile
             \/ dumpFile' = [kind |-> "truncated", content |-> None]
    /\ UNCHANGED <<session, quitCalls, timedOut, markup, rows, i, all_jobs, origin,
                   skipped, jobs, unique_jobs, rss_feed, feedFile, href, job_url>>

\* with open('debug_page.html', 'w', encoding='utf-8') as f: f.write(html_content)
\* A failing open leaves the file as it was, a failing write leaves it truncated.
SaveDebugHtml ==
    /\ pc = "dump"
    /\ \/ /\ dumpFile' = [kind |-> "written", content |-> markup]
          /\ pc' = "parse"
          /\ UNCHANGED <<pending, raised>>
       \/ /\ Raise("dump")
          /\ \/ UNCHANGED dumpFile
             \/ dumpFile' = [kind |-> "truncated", content |-> None]
    /\ UNCHANGED <<session, quitCalls, timedOut, markup, rows, i, all_jobs, origin,
                   skipped, jobs, unique_jobs, rss_feed, feedFile, href, job_url>>

\* soup = BeautifulSoup(...); table = soup.find(...); if not table: return [];
\* rows = ...
FindTable ==
    /\ pc = "parse"
    /\ \/ /\ markup[1].table = None
          /\ pc' = "finally"
          /\ pending' = "return_empty"
          /\ UNCHANGED <<rows, i, raised>>
       \/ /\ markup[1].table # None
          /\ rows' = SelectRows(markup[1].table[1])
          /\ i' = 1
          /\ pc' = "rows"
          /\ UNCHANGED <<pending, raised>>
       \/ /\ Raise("parse")
          /\ UNCHANGED <<rows, i>>
    /\ UNCHANGED <<session, quitCalls, timedOut, markup, dumpFile, all_jobs, origin,
                   skipped, jobs, unique_jobs, rss_feed, feedFile, href, job_url>>

RowStepFaultAborts ==
    /\ pc = "rows"
    /\ i <= Len(rows)
    /\ \/ /\ ParseRow(rows[i]) # None
          /\ all_jobs' = Append(all_jobs, ParseRow(rows[i])[1])
          /\ origin' = Append(origin, i)
          /\ i' = i + 1
          /\ UNCHANGED <<pc, skipped, pending, raised>>
       \/ /\ ParseRow(rows[i]) = None
          /\ i' = i + 1
          /\ UNCHANGED <<pc, all_jobs, origin, skipped, pending, raised>>
       \/ /\ skipped' = skipped \cup {i}
          /\ i' = i + 1
          /\ Raise("row")
          /\ UNCHANGED <<all_jobs, origin>>
    /\ UNCHANGED <<session, quitCalls, timedOut, markup, dumpFile, rows, jobs,
                   unique_jobs, rss_feed, feedFile, href, job_url>>

\* One iteration of "for row in rows", its try/except Exception included: a
\* fault anywhere in the body is caught and the loop continues.
RowStep ==
    /\ pc = "rows"
    /\ i <= Len(rows)
    /\ \/ /\ ParseRow(rows[i]) # None
          /\ all_jobs' = Append(all_jobs, ParseRow(rows[i])[1])
          /\ origin' = Append(origin, i)
          /\ UNCHANGED skipped
       \/ /\ ParseRow(rows[i]) = None
          /\ UNCHANGED <<all_jobs, origin, skipped>>
       \/ /\ skipped' = skipped \cup {i}
          /\ UNCHANGED <<all_jobs, origin>>
    /\ i' = i + 1
    /\ UNCHANGED <<pc, session, quitCalls, timedOut, markup, dumpFile, rows, pending,
                   raised, jobs, unique_jobs, rss_feed, feedFile, href, job_url>>

\* The loop is exhausted: control leaves the try block normally.
RowsDone ==
    /\ pc = "rows"
    /\ i > Len(rows)
    /\ pc' = "finally"
    /\ pending' = "return"
    /\ UNCHANGED <<session, quitCalls, timedOut, markup, dumpFile, rows, i, all_jobs,
                   origin, skipped, raised, jobs, unique_jobs, rss_feed, feedFile,
                   href, job_url>>

FinallyOnlyOnReturn ==
    /\ pc = "finally"
    /\ session' = IF pending = "return" THEN "quit" ELSE session
    /\ quitCalls' = IF pending = "return" THEN quitCalls + 1 ELSE quitCalls
    /\ \/ /\ pending = "raise"
          /\ pc' = "raised"
          /\ UNCHANGED <<jobs, raised>>
       \/ /\ pending = "return_empty"
          /\ jobs' = <<>>
          /\ pc' = "main_check"
          /\ UNCHANGED raised
       \/ /\ pending = "return"
          /\ jobs' = all_jobs
          /\ pc' = "main_check"
          /\ UNCHANGED raised
       \/ /\ pending = "return"
          /\ pc' = "raised"
          /\ raised' = IF raised = "none" THEN "quit" ELSE raised
          /\ UNCHANGED jobs
    /\ UNCHANGED <<timedOut, markup, dumpFile, rows, i, all_jobs, origin, skipped,
                   pending, unique_jobs, rss_feed, feedFile, href, job_url>>

\* finally: driver.quit(); then the pending return or exception completes.
\* driver.quit() may itself raise, which replaces a pending return.
Finally ==
    /\ pc = "finally"
    /\ session' = "quit"
    /\ quitCalls' = quitCalls + 1
    /\ \/ /\ pending = "raise"
          /\ pc' = "raised"
          /\ UNCHANGED <<jobs, raised>>
       \/ /\ pending = "return_empty"
          /\ jobs' = <<>>
          /\ pc' = "main_check"
          /\ UNCHANGED raised
       \/ /\ pending = "return"
          /\ jobs' = all_jobs
          /\ pc' = "main_check"
          /\ UNCHANGED raised
       \/ /\ pc' = "raised"
          /\ raised' = IF raised = "none" THEN "quit" ELSE raised
          /\ UNCHANGED jobs
    /\ UNCHANGED <<timedOut, markup, dumpFile, rows, i, all_jobs, origin, skipped,
                   pending, unique_jobs, rss_feed, feedFile, href, job_url>>

(* --------------------------------- main -------------------------------- *)

RECURSIVE DedupLoop(_, _, _)
DedupLoop(js, unique, seen_links) ==
    IF js = <<>> THEN unique
    ELSE IF Head(js).link \notin seen_links
         THEN DedupLoop(Tail(js), Append(unique, Head(js)), seen_links \cup {Head(js).link})
         ELSE DedupLoop(Tail(js), unique, seen_links)

RECURSIVE KeepLast(_)
KeepLast(js) ==
    IF js = <<>> THEN <<>>
    ELSE IF \E k \in 2..Len(js) : js[k].link = Head(js).link
         THEN KeepLast(Tail(js))
         ELSE <<Head(js)>> \o KeepLast(Tail(js))

RemoveDuplicatesKeepsLast(js) == KeepLast(js)

RemoveDuplicatesNone(js) == js

\* "Remove duplicates (by link)"
RemoveDuplicates(js) == DedupLoop(js, <<>>, {})

NOW == "utcnow"

ItemOf(job) ==
    [title       |-> job.title,
     link        |-> job.link,
     description |-> LOCATION_PREFIX \o job.location \o POSTING_DATE_PREFIX \o job.posting_date,
     pubDate     |-> NOW,
     guid        |-> [isPermaLink |-> "true", text |-> job.link]]

RECURSIVE ItemsLoop(_, _)
ItemsLoop(js, items) ==
    IF js = <<>> THEN items ELSE ItemsLoop(Tail(js), Append(items, ItemOf(Head(js))))

RECURSIVE ItemsReversed(_)
ItemsReversed(js) ==
    IF js = <<>> THEN <<>> ELSE Append(ItemsReversed(Tail(js)), ItemOf(Head(js)))

create_rss_feed_reversed(js) ==
    [title         |-> "EBRD Job Vacancies",
     link          |-> "SEARCH_URL",
     language      |-> "en",
     lastBuildDate |-> NOW,
     items         |-> ItemsReversed(js)]

\* The channel: its metadata and its <item> children in document order.
create_rss_feed(js) ==
    [title         |-> "EBRD Job Vacancies",
     link          |-> "SEARCH_URL",
     language      |-> "en",
     lastBuildDate |-> NOW,
     items         |-> ItemsLoop(js, <<>>)]

\* if not jobs: print("No jobs found!"); return
CheckJobsAlwaysContinues ==
    /\ pc = "main_check"
    /\ \/ /\ jobs = <<>>
          /\ pc' = "dedup"
       \/ /\ jobs # <<>>
          /\ pc' = "dedup"
    /\ UNCHANGED <<session, quitCalls, timedOut, markup, dumpFile, rows, i, all_jobs,
                   origin, skipped, pending, raised, jobs, unique_jobs, rss_feed,
                   feedFile, href, job_url>>

CheckJobs ==
    /\ pc = "main_check"
    /\ \/ /\ jobs = <<>>
          /\ pc' = "done"
       \/ /\ jobs # <<>>
          /\ pc' = "dedup"
    /\ UNCHANGED <<session, quitCalls, timedOut, markup, dumpFile, rows, i, all_jobs,
                   origin, skipped, pending, raised, jobs, unique_jobs, rss_feed,
                   feedFile, href, job_url>>

\* The duplicate filter of main.
FilterDuplicates ==
    /\ pc = "dedup"
    /\ unique_jobs' = RemoveDuplicates(jobs)
    /\ pc' = "create_rss"
    /\ UNCHANGED <<session, quitCalls, timedOut, markup, dumpFile, rows, i, all_jobs,
                   origin, skipped, pending, raised, jobs, rss_feed, feedFile, href,
                   job_url>>

\* rss_feed = create_rss_feed(unique_jobs)
CreateRssFeed ==
    /\ pc = "create_rss"
    /\ rss_feed' = Some(create_rss_feed(unique_jobs))
    /\ pc' = "save"
    /\ UNCHANGED <<session, quitCalls, timedOut, markup, dumpFile, rows, i, all_jobs,
                   origin, skipped, pending, raised, jobs, unique_jobs, feedFile, href,
                   job_url>>

\* xml_content = prettify_xml(rss_feed); open(output_file, 'w') ... f.write(xml_content)
\* The file holds the serialized tree; prettify_xml raises before the file is
\* opened when the tree does not serialize to parseable XML.
SaveFeed ==
    /\ pc = "save"
    /\ \/ /\ feedFile' = [kind |-> "written", content |-> rss_feed]
          /\ pc' = "done"
          /\ UNCHANGED raised
       \/ /\ pc' = "raised"
          /\ raised' = "prettify_xml"
          /\ UNCHANGED feedFile
    /\ UNCHANGED <<session, quitCalls, timedOut, markup, dumpFile, rows, i, all_jobs,
                   origin, skipped, pending, jobs, unique_jobs, rss_feed, href, job_url>>

(* --------------------------- the run of main --------------------------- *)

Init ==
    /\ pc = "main"
    /\ session = "none"
    /\ quitCalls = 0
    /\ timedOut = FALSE
    /\ markup = None
    /\ dumpFile = OldDump
    /\ rows = <<>>
    /\ i = 1
    /\ all_jobs = <<>>
    /\ origin = <<>>
    /\ skipped = {}
    /\ pending = "none"
    /\ raised = "none"
    /\ jobs = <<>>
    /\ unique_jobs = <<>>
    /\ rss_feed = None
    /\ feedFile = OldFeed
    /\ href = <<>>
    /\ job_url = <<>>

Next ==
    \/ StartMain
    \/ SetupDriver
    \/ DriverGet
    \/ WaitForResults
    \/ PageSource
    \/ SaveDebugHtml
    \/ FindTable
    \/ RowStep
    \/ RowsDone
    \/ Finally
    \/ CheckJobs
    \/ FilterDuplicates
    \/ CreateRssFeed
    \/ SaveFeed

Spec == Init /\ [][Next]_vars

(* ---------------- the duplicate filter and the feed builder alone ------- *)

TitleChoices == { <<"A">>, <<"B">> }

LinkChoices ==
    { <<"h","t","t","p","s",":","/","/","x","/","a">>,
      <<"h","t","t","p","s",":","/","/","x","/","b">>,
      <<"/","c">> }

LocationChoices == { NOT_SPECIFIED, <<"L","o","n","d","o","n">> }

DateChoices == { <<"2","0","2","4","-","0","1","-","0","1">> }

JobChoices ==
    [title : TitleChoices, link : LinkChoices, location : LocationChoices,
     posting_date : DateChoices]

JobLists == SeqsUpTo(JobChoices, MaxJobs)

\* main at its duplicate filter, holding any list of records.
InitDedup ==
    /\ pc = "dedup"
    /\ jobs \in JobLists
    /\ session = "quit"
    /\ quitCalls = 1
    /\ timedOut = FALSE
    /\ markup = None
    /\ dumpFile = OldDump
    /\ rows = <<>>
    /\ i = 1
    /\ all_jobs = <<>>
    /\ origin = <<>>
    /\ skipped = {}
    /\ pending = "return"
    /\ raised = "none"
    /\ unique_jobs = <<>>
    /\ rss_feed = None
    /\ feedFile = OldFeed
    /\ href = <<>>
    /\ job_url = <<>>

NextDedup == FilterDuplicates

SpecDedup == InitDedup /\ [][NextDedup]_vars

\* main at the call of create_rss_feed, holding any list of records.
InitFeed ==
    /\ pc = "create_rss"
    /\ unique_jobs \in JobLists
    /\ jobs = <<>>
    /\ session = "quit"
    /\ quitCalls = 1
    /\ timedOut = FALSE
    /\ markup = None
    /\ dumpFile = OldDump
    /\ rows = <<>>
    /\ i = 1
    /\ all_jobs = <<>>
    /\ origin = <<>>
    /\ skipped = {}
    /\ pending = "return"
    /\ raised = "none"
    /\ rss_feed = None
    /\ feedFile = OldFeed
    /\ href = <<>>
    /\ job_url = <<>>

NextFeed == CreateRssFeed

SpecFeed == InitFeed /\ [][NextFeed]_vars

(* ------------------- the canonicalization rule alone -------------------- *)

HrefChars == {"/", "h", "t", "p", ":", "a", " "}

Hrefs == SeqsUpTo(HrefChars, MaxHrefLen)

\* job_url = href made absolute.
ApplyRule ==
    /\ pc = "canon"
    /\ job_url' = MakeAbsolute(href)
    /\ pc' = "canon_again"
    /\ UNCHANGED <<session, quitCalls, timedOut, markup, dumpFile, rows, i, all_jobs,
                   origin, skipped, pending, raised, jobs, unique_jobs, rss_feed,
                   feedFile, href>>

\* The rule applied to its own output.
ReapplyRule ==
    /\ pc = "canon_again"
    /\ href' = job_url
    /\ job_url' = MakeAbsolute(job_url)
    /\ pc' = "canon_done"
    /\ UNCHANGED <<session, quitCalls, timedOut, markup, dumpFile, rows, i, all_jobs,
                   origin, skipped, pending, raised, jobs, unique_jobs, rss_feed,
                   feedFile>>

InitCanon ==
    /\ pc = "canon"
    /\ href \in Hrefs
    /\ job_url = <<>>
    /\ jobs = <<>>
    /\ unique_jobs = <<>>
    /\ session = "none"
    /\ quitCalls = 0
    /\ timedOut = FALSE
    /\ markup = None
    /\ dumpFile = OldDump
    /\ rows = <<>>
    /\ i = 1
    /\ all_jobs = <<>>
    /\ origin = <<>>
    /\ skipped = {}
    /\ pending = "none"
    /\ raised = "none"
    /\ rss_feed = None
    /\ feedFile = OldFeed

NextCanon == ApplyRule \/ ReapplyRule

SpecCanon == InitCanon /\ [][NextCanon]_vars

(* ------------------------------ properties ----------------------------- *)

\* main after fetch_jobs_with_selenium has returned.
AfterFetch == {"main_check", "dedup", "create_rss", "save", "done"}

Terminated == pc \in {"done", "raised"}

\* C1: once the session is acquired, driver.quit is called exactly once on
\* every exit path of fetch_jobs_with_selenium (normal return, early return
\* without a table, exception), and not before the try block is left: while
\* control is inside the try block the session is open and no quit has been
\* made; once control is back in main, by return or by exception, exactly one
\* quit has been made.
SessionReleasedExactlyOnce ==
    /\ pc \in TryBody \cup {"finally"} => session = "open" /\ quitCalls = 0
    /\ pc \in AfterFetch => session = "quit" /\ quitCalls = 1
    /\ pc = "raised" /\ raised # "setup_driver" => session = "quit" /\ quitCalls = 1

\* An exception raised by parsing has propagated, after the one quit.
ReleasedOnParseException ==
    pc = "raised" /\ raised = "parse" /\ quitCalls = 1 /\ dumpFile.kind = "written"

Links(js) == { js[k].link : k \in 1..Len(js) }

\* The index of the first record of js with link l.
FirstIndex(js, l) == CHOOSE k \in 1..Len(js) : js[k].link = l /\ \A m \in 1..(k - 1) : js[m].link # l

\* C2: the duplicate filter outputs every distinct link of its input exactly
\* once, keeps for each link the first input record with that link, and
\* keeps the records in input order.
DedupKeepsFirstInOrder ==
    pc = "create_rss" =>
        /\ Links(unique_jobs) = Links(jobs)
        /\ \A l \in Links(jobs) :
               Cardinality({ k \in 1..Len(unique_jobs) : unique_jobs[k].link = l }) = 1
        /\ \A k \in 1..Len(unique_jobs) :
               unique_jobs[k] = jobs[FirstIndex(jobs, unique_jobs[k].link)]
        /\ \A k1, k2 \in 1..Len(unique_jobs) :
               k1 < k2 => FirstIndex(jobs, unique_jobs[k1].link)
                              < FirstIndex(jobs, unique_jobs[k2].link)

\* A duplicate that differs from the first record of its link was dropped,
\* between two records that were kept.
DedupDroppedLaterDuplicate ==
    /\ pc = "create_rss"
    /\ Len(jobs) = 3
    /\ Len(unique_jobs) = 2
    /\ jobs[1].link = jobs[3].link
    /\ jobs[1].title # jobs[3].title

\* C3: create_rss_feed makes exactly one item per input record, in input
\* order; the item's title and link are the record's, its guid text is its
\* link, and its description is "Location: {location}\nPosting Date:
\* {posting_date}".
FeedItemPerRecord ==
    pc = "save" =>
        LET items == rss_feed[1].items
        IN  /\ Len(items) = Len(unique_jobs)
            /\ \A k \in 1..Len(unique_jobs) :
                   /\ items[k].title = unique_jobs[k].title
                   /\ items[k].link = unique_jobs[k].link
                   /\ items[k].guid.text = items[k].link
                   /\ items[k].description =
                          <<"L","o","c","a","t","i","o","n",":"," ">>
                              \o unique_jobs[k].location
                              \o <<"\n">>
                              \o <<"P","o","s","t","i","n","g"," ","D","a","t","e",":"," ">>
                              \o unique_jobs[k].posting_date

\* A feed was built from three records, two of them with the same link.
FeedBuiltFromSeveral ==
    /\ pc = "save"
    /\ Len(unique_jobs) = 3
    /\ unique_jobs[1] # unique_jobs[2]
    /\ unique_jobs[1].link = unique_jobs[3].link
    /\ rss_feed[1].items[2].description =
           <<"L","o","c","a","t","i","o","n",":"," ","L","o","n","d","o","n","\n",
             "P","o","s","t","i","n","g"," ","D","a","t","e",":"," ",
             "2","0","2","4","-","0","1","-","0","1">>

\* C4: when fetch_jobs_with_selenium returns the empty sequence, main ends
\* without calling create_rss_feed and without touching ebrd_jobs.xml: the
\* file is the one that was there before the run.
NoJobsNoFeed ==
    /\ pc \in AfterFetch /\ jobs = <<>> => pc \in {"main_check", "done"}
    /\ pc = "done" /\ jobs = <<>> => rss_feed = None /\ feedFile = OldFeed

\* A run ended with no jobs although the page had a results table with rows.
EndedWithoutJobs ==
    /\ pc = "done"
    /\ jobs = <<>>
    /\ markup # None
    /\ markup[1].table # None
    /\ markup[1].table[1] # <<>>
    /\ feedFile = OldFeed

\* C5 as claimed: every run of main, whatever its outcome, writes the dump.
DumpWrittenOnEveryRun == Terminated => dumpFile.kind = "written"

\* C5 amended: a run writes the dump (the captured markup) if and only if it
\* got as far as reading driver.page_source and the write itself did not
\* fail, whatever happens afterwards; a run that fails earlier leaves the
\* dump file as it was.
DumpWrittenOnceMarkupCaptured ==
    /\ Terminated /\ markup # None /\ raised # "dump" =>
           dumpFile = [kind |-> "written", content |-> markup]
    /\ Terminated /\ markup = None => dumpFile = OldDump

\* The dump was written in a run that found no results table.
DumpWrittenWithoutTable ==
    /\ pc = "done"
    /\ markup # None
    /\ markup[1].table = None
    /\ dumpFile.kind = "written"

\* C6: every record comes from a row that contains a hyperlink, whether the
\* candidate rows are the data-row rows or, when no row of the table carries
\* the marker, the rows of the table that contain a hyperlink.
RecordsOnlyFromRowsWithLinks ==
    /\ Len(origin) = Len(all_jobs)
    /\ \A k \in 1..Len(all_jobs) :
           /\ origin[k] \in 1..Len(rows)
           /\ rows[origin[k]].anchors # <<>>
    /\ pc = "rows" \/ pending = "return" =>
           LET trs == markup[1].table[1]
           IN  /\ \A k \in 1..Len(rows) : \E m \in 1..Len(trs) : trs[m] = rows[k]
               /\ (\A m \in 1..Len(trs) : ~trs[m].marker) =>
                      \A k \in 1..Len(rows) : rows[k].anchors # <<>>
               /\ (\E m \in 1..Len(trs) : trs[m].marker) =>
                      \A k \in 1..Len(rows) : rows[k].marker
    /\ pc \in AfterFetch /\ pending = "return" => jobs = all_jobs

\* A data-row row without a hyperlink was passed over and a later row gave
\* a record.
LinklessDataRowPassedOver ==
    /\ pc = "main_check"
    /\ Len(rows) >= 2
    /\ rows[1].marker
    /\ rows[1].anchors = <<>>
    /\ 1 \notin skipped
    /\ Len(jobs) >= 1

\* C7: the canonicalization rule is idempotent (applied to its own output it
\* returns that output) and leaves a URL that already starts with http as
\* it is.
CanonicalizationIdempotent ==
    /\ pc = "canon_done" => job_url = href
    /\ pc = "canon_again" /\ StartsWith(href, HTTP) => job_url = href
    /\ pc \in {"canon_again", "canon_done"} => StartsWith(job_url, HTTP)

\* The rule was applied again to the result of a relative href.
ReappliedToPrefixedHref ==
    /\ pc = "canon_done"
    /\ href = BASE_URL \o <<"/","a"," ","/">>

\* C8: every record has a non-empty title and a non-empty link, also when the
\* hyperlink has no text, no href or an empty href; a row whose hyperlink
\* text is empty after trimming gives no record.
RecordsHaveTitleAndLink ==
    /\ \A k \in 1..Len(all_jobs) :
           /\ all_jobs[k].title # <<>>
           /\ all_jobs[k].link # <<>>
           /\ k <= Len(origin) =>
                  get_text_strip(rows[origin[k]].anchors[1].strings) # <<>>
    /\ \A k \in 1..Len(jobs) : jobs[k].title # <<>> /\ jobs[k].link # <<>>

\* A row whose hyperlink has only whitespace gave nothing, and a row whose
\* hyperlink has no href gave a record.
BlankTitleDroppedMissingHrefKept ==
    /\ pc = "main_check"
    /\ Len(rows) = 2
    /\ rows[1].anchors # <<>>
    /\ get_text_strip(rows[1].anchors[1].strings) = <<>>
    /\ rows[2].anchors # <<>>
    /\ rows[2].anchors[1].href = None
    /\ skipped = {}
    /\ Len(jobs) = 1
    /\ jobs[1].link = BASE_URL \o <<"/">>

\* The records of the first n candidate rows, the rows in faulted left out.
RECURSIVE RecordsOf(_, _, _)
RecordsOf(rs, n, faulted) ==
    IF n = 0 THEN <<>>
    ELSE IF n \in faulted \/ FindA(rs[n]) = None
              \/ get_text_strip(rs[n].anchors[1].strings) = <<>>
         THEN RecordsOf(rs, n - 1, faulted)
         ELSE Append(RecordsOf(rs, n - 1, faulted), JobOf(rs[n], rs[n].anchors[1]))

\* C9: a fault in one row is caught in the loop: the row gives no record, the
\* loop goes on, the records of the other rows are returned in order and the
\* function does not raise. A marker-wait timeout does not keep the markup
\* from being captured and parsed, and a missing table gives the empty
\* sequence without raising.
RowFaultsAreSkipped ==
    /\ skipped \subseteq 1..(i - 1)
    /\ pc = "rows" => all_jobs = RecordsOf(rows, i - 1, skipped)
    /\ skipped # {} => pc = "rows" \/ pending = "return"
    /\ pending = "return" =>
           /\ i = Len(rows) + 1
           /\ all_jobs = RecordsOf(rows, Len(rows), skipped)
           /\ rows = SelectRows(markup[1].table[1])
    /\ pc \in AfterFetch /\ pending = "return" => jobs = all_jobs
    /\ pending = "return_empty" =>
           /\ markup[1].table = None
           /\ pc \in AfterFetch => jobs = <<>>
    /\ raised \in {"none", "setup_driver", "get", "page_source", "dump", "parse", "quit",
                   "prettify_xml"}
    /\ raised = "parse" => pc \in {"finally", "raised"} /\ rows = <<>>
    /\ pc = "raised" /\ raised = "quit" => pending \in {"return", "return_empty"}

\* After a timed-out wait, the first row faulted and the second row's record
\* was returned.
FaultedRowSkippedAfterTimeout ==
    /\ pc = "main_check"
    /\ timedOut
    /\ skipped = {1}
    /\ Len(rows) = 2
    /\ Len(jobs) = 1
    /\ origin = <<2>>

PairwiseDistinctLinks(items) ==
    \A k1, k2 \in 1..Len(items) : k1 # k2 => items[k1].link # items[k2].link

\* C10: whenever ebrd_jobs.xml is written, the session has been released
\* before, the feed has at least one item, the items' links (and guids) are
\* pairwise distinct and start with http; no feed is written in a run in
\* which fetch_jobs_with_selenium raised or returned nothing.
FeedWrittenOnlyAfterReleaseNonEmptyDistinct ==
    /\ pc = "save" => session = "quit" /\ quitCalls = 1 /\ raised = "none"
    /\ feedFile # OldFeed =>
           /\ feedFile.kind = "written"
           /\ session = "quit"
           /\ quitCalls = 1
           /\ pending = "return"
           /\ raised = "none"
           /\ jobs # <<>>
           /\ LET items == feedFile.content[1].items
              IN  /\ Len(items) >= 1
                  /\ PairwiseDistinctLinks(items)
                  /\ \A k \in 1..Len(items) :
                         /\ StartsWith(items[k].link, HTTP)
                         /\ items[k].guid.text = items[k].link
    /\ pc = "raised" /\ raised # "prettify_xml" => feedFile = OldFeed /\ rss_feed = None

\* A feed of two items was written from three records, two with one link.
FeedWrittenAfterDedup ==
    /\ pc = "done"
    /\ feedFile.kind = "written"
    /\ Len(jobs) = 3
    /\ Len(feedFile.content[1].items) = 2

====
